---- MODULE Spec2Model ----
(***************************************************************************)
(* Model of aws/secrets.go: the SecretsModule enumeration run.             *)
(*                                                                         *)
(* PrintSecrets (the orchestrator) starts the spinner and the Receiver,    *)
(* launches one executeChecks goroutine per region, waits on the           *)
(* WaitGroup, performs the two stop handshakes and then builds the output. *)
(* Every executeChecks goroutine runs the SecretsManager pagination loop   *)
(* and then the SSM pagination loop, sending each Secret on the unbuffered *)
(* channel dataReceiver.                                                   *)
(*                                                                         *)
(* m.CommandCounter is a plain struct of ints that several goroutines      *)
(* update with ++ and -- without synchronisation.  Each such statement is  *)
(* modelled as a load into a goroutine-local register followed by a store, *)
(* which are the outcomes the data race can produce.                       *)
(***************************************************************************)
EXTENDS Integers, Sequences, FiniteSets, TLC

\* ---------------------------------------------------------------- bounds
\* The longest region list tried.
MaxRegions == 2
\* The list calls the remote API answers in one run, over all sources.
MaxCalls == 4
\* The records the remote API holds, over all sources.
MaxRecords == 2

\* ------------------------------------------------------------ vocabulary
SecretsManager == "SecretsManager"
SSM == "SSM"
Kinds == {SecretsManager, SSM}

\* A *string is modelled as a sequence: <<>> is nil, <<s>> points to s.
NilString == <<>>

\* aws.ToString: the pointed-to string, "" for a nil pointer.
ToStr(p) == IF p = NilString THEN "" ELSE p[1]

\* The NextToken of a response: 0 is the nil token, i > 0 an opaque token.
NilToken == 0

RegionName(i) == "region-" \o ToString(i)

RegionList(n) == [i \in 1..n |-> RegionName(i)]

Range(s) == {s[i] : i \in DOMAIN s}

RECURSIVE SumSeq(_)
SumSeq(s) == IF s = <<>> THEN 0 ELSE Head(s) + SumSeq(Tail(s))

\* ------------------------------------------------------------- variables
VARIABLES
    AWSRegions,     \* m.AWSRegions
    remote,         \* the remote API: per region and kind, page sizes and failing call
    Secrets,        \* m.Secrets
    CommandCounter, \* m.CommandCounter
    wg,             \* the WaitGroup counter
    opc,            \* position of PrintSecrets
    oi,             \* index of the range loop over m.AWSRegions
    oreg,           \* PrintSecrets' register during Pending++ / Error++
    wpc,            \* position of each executeChecks goroutine
    wreg,           \* its register during a ++ or --
    PaginationControl, \* its current continuation token
    list,           \* records of the current page still to be submitted
    NextToken,      \* NextToken of the current response
    rpc,            \* position of the Receiver
    rdata,          \* the Secret the Receiver took from the channel, not yet appended
    spc,            \* position of the spinner
    body,           \* m.output.Body
    report,         \* what PrintSecrets printed at the end
    calls,          \* history: list calls issued per region and kind
    sent,           \* history: sends on dataReceiver completed, per region
    failed,         \* history: list calls that returned an error, per region and kind
    ops,            \* history: the counter writes and wg.Done of each worker, in order
    log             \* history: the list calls of each region and kind, in order

vars == <<AWSRegions, remote, Secrets, CommandCounter, wg, opc, oi, oreg,
          wpc, wreg, PaginationControl, list, NextToken, rpc, rdata, spc,
          body, report, calls, sent, failed, ops, log>>

Regions == Range(AWSRegions)

\* ------------------------------------------------------------ remote API
\* One source of one region: the sizes of the pages it serves, in order,
\* and whether the call after the last served page fails.  A source that
\* does not fail serves at least one page and ends with a nil NextToken.
SourceBehaviours(maxCalls) ==
    { [pages |-> p, fails |-> f] :
        p \in UNION { [1..n -> 0..MaxRecords] : n \in 0..maxCalls },
        f \in BOOLEAN }

\* The list calls the source answers before its loop must end.
CallsOf(b) == Len(b.pages) + (IF b.fails THEN 1 ELSE 0)

RecordsOf(b) == SumSeq(b.pages)

\* Every source answers at least one call, so with n regions one source
\* answers at most MaxCalls - (2n - 1) of them.
ValidBehaviours(n) ==
    LET most == MaxCalls - (2 * n - 1)
    IN { b \in SourceBehaviours(most) :
            CallsOf(b) \in 1..most /\ RecordsOf(b) <= MaxRecords }

\* The raw record j of page p: a name and an optional description.
RawRecord(k, p, j) ==
    [ Name |-> << (IF k = SecretsManager THEN "secret-" ELSE "param-")
                  \o ToString(p) \o "-" \o ToString(j) >>,
      Description |-> IF j % 2 = 1 THEN NilString
                      ELSE << "about " \o ToString(p) \o "-" \o ToString(j) >> ]

\* ListSecrets / DescribeParameters of region r called with token t.
ListCall(r, k, t) ==
    LET b == remote[r][k]
        p == t + 1
    IN IF p > Len(b.pages)
       THEN [err |-> TRUE, list |-> <<>>, NextToken |-> NilToken]
       ELSE [err |-> FALSE,
             list |-> [j \in 1..b.pages[p] |-> RawRecord(k, p, j)],
             NextToken |-> IF p < CallsOf(b) THEN p ELSE NilToken]

\* ------------------------------------------------------------------ Init
\* Sum of the values of a function with a finite domain.
RECURSIVE SumFn(_)
SumFn(f) ==
    IF DOMAIN f = {} THEN 0
    ELSE LET x == CHOOSE y \in DOMAIN f : TRUE
         IN f[x] + SumFn([z \in DOMAIN f \ {x} |-> f[z]])

\* List calls answered and records held by the sources of the given regions.
TotalCalls(rem, regs) ==
    SumFn([x \in regs \X Kinds |-> CallsOf(rem[x[1]][x[2]])])

TotalRecords(rem, regs) ==
    SumFn([x \in regs \X Kinds |-> RecordsOf(rem[x[1]][x[2]])])

Init ==
    /\ \E n \in 0..MaxRegions : AWSRegions = RegionList(n)
    /\ remote \in [Regions -> [Kinds -> ValidBehaviours(Len(AWSRegions))]]
    /\ TotalCalls(remote, Regions) <= MaxCalls
    /\ TotalRecords(remote, Regions) <= MaxRecords
    /\ Secrets = <<>>
    /\ CommandCounter = [Total |-> 0, Pending |-> 0, Complete |-> 0,
                         Error |-> 0, Executing |-> 0]
    /\ wg = 0
    /\ opc = "loop"
    /\ oi = 1
    /\ oreg = 0
    /\ wpc = [r \in Regions |-> "idle"]
    /\ wreg = [r \in Regions |-> 0]
    /\ PaginationControl = [r \in Regions |-> NilToken]
    /\ list = [r \in Regions |-> <<>>]
    /\ NextToken = [r \in Regions |-> NilToken]
    /\ rpc = "select"
    /\ rdata = <<>>
    /\ spc = "spin"
    /\ body = <<>>
    /\ report = ""
    /\ calls = [r \in Regions |-> [k \in Kinds |-> 0]]
    /\ sent = [r \in Regions |-> 0]
    /\ failed = [r \in Regions |-> [k \in Kinds |-> 0]]
    /\ ops = [r \in Regions |-> <<>>]
    /\ log = [r \in Regions |-> [k \in Kinds |-> <<>>]]

inputVars == <<AWSRegions, remote>>
orchVars == <<opc, oi, oreg>>
workerVars == <<wpc, wreg, PaginationControl, list, NextToken>>
receiverVars == <<rpc, rdata>>
outputVars == <<body, report>>
historyVars == <<calls, sent, failed, ops, log>>

\* ---------------------------------------------------------- PrintSecrets
\* Variant: the worker is launched without being added to the WaitGroup.
PrintSecrets_wgAdd_missing ==
    /\ opc = "loop"
    /\ oi <= Len(AWSRegions)
    /\ opc' = "pendLoad"
    /\ UNCHANGED <<inputVars, Secrets, CommandCounter, wg, oi, oreg, workerVars,
                   receiverVars, spc, outputVars, historyVars>>

\* wg.Add(1) at the head of one iteration of the range loop.
PrintSecrets_wgAdd ==
    /\ opc = "loop"
    /\ oi <= Len(AWSRegions)
    /\ wg' = wg + 1
    /\ opc' = "pendLoad"
    /\ UNCHANGED <<inputVars, Secrets, CommandCounter, oi, oreg, workerVars,
                   receiverVars, spc, outputVars, historyVars>>

\* m.CommandCounter.Pending++ : the read.
PrintSecrets_PendingLoad ==
    /\ opc = "pendLoad"
    /\ oreg' = CommandCounter.Pending
    /\ opc' = "pendStore"
    /\ UNCHANGED <<inputVars, Secrets, CommandCounter, wg, oi, workerVars,
                   receiverVars, spc, outputVars, historyVars>>

\* m.CommandCounter.Pending++ : the write.
PrintSecrets_PendingStore ==
    /\ opc = "pendStore"
    /\ CommandCounter' = [CommandCounter EXCEPT !.Pending = oreg + 1]
    /\ oreg' = 0
    /\ opc' = "go"
    /\ UNCHANGED <<inputVars, Secrets, wg, oi, workerVars,
                   receiverVars, spc, outputVars, historyVars>>

\* go m.executeChecks(region, wg, dataReceiver)
PrintSecrets_go ==
    /\ opc = "go"
    /\ wpc' = [wpc EXCEPT ![AWSRegions[oi]] = "totLoad"]
    /\ oi' = oi + 1
    /\ opc' = "loop"
    /\ UNCHANGED <<inputVars, Secrets, CommandCounter, wg, oreg, wreg,
                   PaginationControl, list, NextToken,
                   receiverVars, spc, outputVars, historyVars>>

\* Variant: the stop handshakes start without waiting for the workers.
PrintSecrets_wgWait_skipped ==
    /\ opc = "loop"
    /\ oi > Len(AWSRegions)
    /\ opc' = "spinnerStop"
    /\ UNCHANGED <<inputVars, Secrets, CommandCounter, wg, oi, oreg, workerVars,
                   receiverVars, spc, outputVars, historyVars>>

\* wg.Wait() returns when the WaitGroup counter is zero.
PrintSecrets_wgWait ==
    /\ opc = "loop"
    /\ oi > Len(AWSRegions)
    /\ wg = 0
    /\ opc' = "spinnerStop"
    /\ UNCHANGED <<inputVars, Secrets, CommandCounter, wg, oi, oreg, workerVars,
                   receiverVars, spc, outputVars, historyVars>>

\* ------------------------------------------------------------ SpinUntil
\* spinnerDone <- true in PrintSecrets meets the spinner's <-done.
SpinUntil_stop ==
    /\ opc = "spinnerStop"
    /\ spc = "spin"
    /\ spc' = "ack"
    /\ opc' = "spinnerAck"
    /\ UNCHANGED <<inputVars, Secrets, CommandCounter, wg, oi, oreg, workerVars,
                   receiverVars, outputVars, historyVars>>

\* The spinner's done <- true meets <-spinnerDone in PrintSecrets.
SpinUntil_ack ==
    /\ opc = "spinnerAck"
    /\ spc = "ack"
    /\ spc' = "done"
    /\ opc' = "receiverStop"
    /\ UNCHANGED <<inputVars, Secrets, CommandCounter, wg, oi, oreg, workerVars,
                   receiverVars, outputVars, historyVars>>

\* -------------------------------------------------------- executeChecks
\* The read half of a ++ or -- on a CommandCounter field in a worker.
Load(r, from, field, to) ==
    /\ wpc[r] = from
    /\ wreg' = [wreg EXCEPT ![r] = CommandCounter[field]]
    /\ wpc' = [wpc EXCEPT ![r] = to]
    /\ UNCHANGED <<inputVars, Secrets, CommandCounter, wg, orchVars,
                   PaginationControl, list, NextToken,
                   receiverVars, spc, outputVars, historyVars>>

\* The write half: the register plus delta goes back to the field.
Store(r, from, field, delta, to) ==
    /\ wpc[r] = from
    /\ CommandCounter' = [CommandCounter EXCEPT ![field] = wreg[r] + delta]
    /\ wreg' = [wreg EXCEPT ![r] = 0]
    /\ wpc' = [wpc EXCEPT ![r] = to]
    /\ ops' = [ops EXCEPT ![r] = Append(@, <<field, delta>>)]
    /\ UNCHANGED <<inputVars, Secrets, wg, orchVars,
                   PaginationControl, list, NextToken,
                   receiverVars, spc, outputVars, calls, sent, failed, log>>

\* m.CommandCounter.Total++
executeChecks_TotalLoad(r) == Load(r, "totLoad", "Total", "totStore")
executeChecks_TotalStore(r) == Store(r, "totStore", "Total", 1, "pendLoad")

\* m.CommandCounter.Pending--
executeChecks_PendingLoad(r) == Load(r, "pendLoad", "Pending", "pendStore")
executeChecks_PendingStore(r) == Store(r, "pendStore", "Pending", -1, "execLoad")

\* m.CommandCounter.Executing++
executeChecks_ExecutingLoad(r) == Load(r, "execLoad", "Executing", "execStore")
executeChecks_ExecutingStore(r) == Store(r, "execStore", "Executing", 1, "sm_call")

\* m.CommandCounter.Executing--
executeChecks_ExecutingDecLoad(r) == Load(r, "exec2Load", "Executing", "exec2Store")
executeChecks_ExecutingDecStore(r) == Store(r, "exec2Store", "Executing", -1, "compLoad")

\* m.CommandCounter.Complete++
executeChecks_CompleteLoad(r) == Load(r, "compLoad", "Complete", "compStore")
executeChecks_CompleteStore(r) == Store(r, "compStore", "Complete", 1, "wgDone")

\* Variant: the worker returns without wg.Done().
executeChecks_wgDone_forgotten(r) ==
    /\ wpc[r] = "wgDone"
    /\ wpc' = [wpc EXCEPT ![r] = "done"]
    /\ ops' = [ops EXCEPT ![r] = Append(@, <<"wg", -1>>)]
    /\ UNCHANGED <<inputVars, Secrets, CommandCounter, wg, orchVars, wreg,
                   PaginationControl, list, NextToken,
                   receiverVars, spc, outputVars, calls, sent, failed, log>>

\* defer wg.Done()
executeChecks_wgDone(r) ==
    /\ wpc[r] = "wgDone"
    /\ wg' = wg - 1
    /\ wpc' = [wpc EXCEPT ![r] = "done"]
    /\ ops' = [ops EXCEPT ![r] = Append(@, <<"wg", -1>>)]
    /\ UNCHANGED <<inputVars, Secrets, CommandCounter, orchVars, wreg,
                   PaginationControl, list, NextToken,
                   receiverVars, spc, outputVars, calls, sent, failed, log>>

\* ----------------------------------------------------- pagination loops
Pfx(k) == IF k = SecretsManager THEN "sm_" ELSE "ssm_"

\* Where a worker continues when the loop of source k is left.
AfterSource(k) == IF k = SecretsManager THEN "ssm_call" ELSE "exec2Load"

\* Variant: the loop is left after the first page whatever its NextToken.
NextIteration_break(k, next) ==
    [pc |-> AfterSource(k), PaginationControl |-> NilToken]

\* Variant: the loop goes on after a non-nil NextToken but the token is not
\* carried into the next call.
NextIteration_stale(k, next) ==
    IF next # NilToken
    THEN [pc |-> Pfx(k) \o "call", PaginationControl |-> NilToken]
    ELSE [pc |-> AfterSource(k), PaginationControl |-> NilToken]

\* The end of one loop iteration: a non-nil NextToken becomes the next
\* call's token, a nil one ends the loop.
NextIteration(k, next) ==
    IF next # NilToken
    THEN [pc |-> Pfx(k) \o "call", PaginationControl |-> next]
    ELSE [pc |-> AfterSource(k), PaginationControl |-> NilToken]

\* One list call of source k in region r and the handling of its result up
\* to the first statement that touches shared state.
PageCall(r, k) ==
    /\ wpc[r] = Pfx(k) \o "call"
    /\ LET out == ListCall(r, k, PaginationControl[r])
           nxt == NextIteration(k, out.NextToken)
       IN /\ calls' = [calls EXCEPT ![r][k] = @ + 1]
          /\ log' = [log EXCEPT ![r][k] =
                        Append(@, [token |-> PaginationControl[r],
                                   next |-> out.NextToken,
                                   err |-> out.err,
                                   n |-> Len(out.list),
                                   sentBefore |-> sent[r]])]
          /\ IF out.err
             THEN /\ failed' = [failed EXCEPT ![r][k] = @ + 1]
                  /\ wpc' = [wpc EXCEPT ![r] = Pfx(k) \o "errLoad"]
                  /\ UNCHANGED <<PaginationControl, list, NextToken>>
             ELSE /\ UNCHANGED failed
                  /\ IF out.list = <<>>
                     THEN /\ wpc' = [wpc EXCEPT ![r] = nxt.pc]
                          /\ PaginationControl' =
                                [PaginationControl EXCEPT ![r] = nxt.PaginationControl]
                          /\ UNCHANGED <<list, NextToken>>
                     ELSE /\ wpc' = [wpc EXCEPT ![r] = Pfx(k) \o "send"]
                          /\ list' = [list EXCEPT ![r] = out.list]
                          /\ NextToken' = [NextToken EXCEPT ![r] = out.NextToken]
                          /\ UNCHANGED PaginationControl
    /\ UNCHANGED <<inputVars, Secrets, CommandCounter, wg, orchVars, wreg,
                   receiverVars, spc, outputVars, sent, ops>>

getSecretsManagerSecretsPerRegion_ListSecrets(r) == PageCall(r, SecretsManager)
getSSMParametersPerRegion_DescribeParameters(r) == PageCall(r, SSM)

\* m.CommandCounter.Error++ : the read.
getSecretsManagerSecretsPerRegion_ErrorLoad(r) ==
    Load(r, "sm_errLoad", "Error", "sm_errStore")
getSSMParametersPerRegion_ErrorLoad(r) ==
    Load(r, "ssm_errLoad", "Error", "ssm_errStore")

\* Variant: the error ends the whole worker instead of this source's loop.
ErrorStore_return(r, k) ==
    /\ wpc[r] = Pfx(k) \o "errStore"
    /\ CommandCounter' = [CommandCounter EXCEPT !.Error = wreg[r] + 1]
    /\ wreg' = [wreg EXCEPT ![r] = 0]
    /\ wpc' = [wpc EXCEPT ![r] = "exec2Load"]
    /\ PaginationControl' = [PaginationControl EXCEPT ![r] = NilToken]
    /\ ops' = [ops EXCEPT ![r] = Append(@, <<"Error", 1>>)]
    /\ UNCHANGED <<inputVars, Secrets, wg, orchVars, list, NextToken,
                   receiverVars, spc, outputVars, calls, sent, failed, log>>

\* Variant: the error makes executeChecks return; only the deferred
\* wg.Done() still runs.
ErrorStore_abort(r, k) ==
    /\ wpc[r] = Pfx(k) \o "errStore"
    /\ CommandCounter' = [CommandCounter EXCEPT !.Error = wreg[r] + 1]
    /\ wreg' = [wreg EXCEPT ![r] = 0]
    /\ wpc' = [wpc EXCEPT ![r] = "wgDone"]
    /\ PaginationControl' = [PaginationControl EXCEPT ![r] = NilToken]
    /\ ops' = [ops EXCEPT ![r] = Append(@, <<"Error", 1>>)]
    /\ UNCHANGED <<inputVars, Secrets, wg, orchVars, list, NextToken,
                   receiverVars, spc, outputVars, calls, sent, failed, log>>

\* Variant: the error is counted and the same call is issued again.
ErrorStore_retry(r, k) ==
    /\ wpc[r] = Pfx(k) \o "errStore"
    /\ CommandCounter' = [CommandCounter EXCEPT !.Error = wreg[r] + 1]
    /\ wreg' = [wreg EXCEPT ![r] = 0]
    /\ wpc' = [wpc EXCEPT ![r] = Pfx(k) \o "call"]
    /\ ops' = [ops EXCEPT ![r] = Append(@, <<"Error", 1>>)]
    /\ UNCHANGED <<inputVars, Secrets, wg, orchVars, PaginationControl, list,
                   NextToken, receiverVars, spc, outputVars,
                   calls, sent, failed, log>>

\* m.CommandCounter.Error++ : the write, then break.  The function returns,
\* so its PaginationControl is gone; the next loop declares a fresh nil one.
ErrorStore(r, k) ==
    /\ wpc[r] = Pfx(k) \o "errStore"
    /\ CommandCounter' = [CommandCounter EXCEPT !.Error = wreg[r] + 1]
    /\ wreg' = [wreg EXCEPT ![r] = 0]
    /\ wpc' = [wpc EXCEPT ![r] = AfterSource(k)]
    /\ PaginationControl' = [PaginationControl EXCEPT ![r] = NilToken]
    /\ ops' = [ops EXCEPT ![r] = Append(@, <<"Error", 1>>)]
    /\ UNCHANGED <<inputVars, Secrets, wg, orchVars, list, NextToken,
                   receiverVars, spc, outputVars, calls, sent, failed, log>>

getSecretsManagerSecretsPerRegion_ErrorStore(r) == ErrorStore(r, SecretsManager)
getSSMParametersPerRegion_ErrorStore(r) == ErrorStore(r, SSM)

\* Variant: an absent description is formatted instead of left empty.
MakeSecret_formatted(k, r, rec) ==
    [ AWSService |-> k,
      Region |-> r,
      Name |-> ToStr(rec.Name),
      Description |-> IF rec.Description # NilString
                      THEN ToStr(rec.Description) ELSE "<nil>" ]

\* The Secret a worker builds from a raw record.
MakeSecret(k, r, rec) ==
    [ AWSService |-> k,
      Region |-> r,
      Name |-> ToStr(rec.Name),
      Description |-> IF rec.Description # NilString
                      THEN ToStr(rec.Description) ELSE "" ]

SendingKind(r) ==
    IF wpc[r] = "sm_send" THEN SecretsManager ELSE SSM

\* -------------------------------------------------------------- Receiver
\* Variant: the worker appends its Secret to m.Secrets itself instead of
\* handing it to the Receiver.
Receiver_receive_direct(r) ==
    /\ wpc[r] \in {"sm_send", "ssm_send"}
    /\ LET k == IF wpc[r] = "sm_send" THEN SecretsManager ELSE SSM
           nxt == IF NextToken[r] # NilToken
                  THEN [pc |-> (IF k = SecretsManager THEN "sm_call" ELSE "ssm_call"),
                        PaginationControl |-> NextToken[r]]
                  ELSE [pc |-> (IF k = SecretsManager THEN "ssm_call" ELSE "exec2Load"),
                        PaginationControl |-> NilToken]
       IN /\ Secrets' = Append(Secrets,
                [ AWSService |-> k, Region |-> r,
                  Name |-> ToStr(Head(list[r]).Name),
                  Description |-> ToStr(Head(list[r]).Description) ])
          /\ sent' = [sent EXCEPT ![r] = @ + 1]
          /\ list' = [list EXCEPT ![r] = Tail(@)]
          /\ IF Tail(list[r]) = <<>>
             THEN /\ wpc' = [wpc EXCEPT ![r] = nxt.pc]
                  /\ PaginationControl' =
                        [PaginationControl EXCEPT ![r] = nxt.PaginationControl]
                  /\ NextToken' = [NextToken EXCEPT ![r] = NilToken]
             ELSE UNCHANGED <<wpc, PaginationControl, NextToken>>
    /\ UNCHANGED <<inputVars, CommandCounter, wg, orchVars, wreg,
                   receiverVars, spc, outputVars, calls, failed, ops, log>>

\* case data := <-receiver: the send of a worker blocked at
\* dataReceiver <- Secret{...} meets the Receiver's select.  The worker
\* goes on with the rest of the page, or with the token check after the
\* last record.
Receiver_receive(r) ==
    /\ wpc[r] \in {"sm_send", "ssm_send"}
    /\ rpc = "select"
    /\ rdata = <<>>
    /\ LET k == SendingKind(r)
           nxt == NextIteration(k, NextToken[r])
       IN /\ rdata' = << MakeSecret(k, r, Head(list[r])) >>
          /\ sent' = [sent EXCEPT ![r] = @ + 1]
          /\ list' = [list EXCEPT ![r] = Tail(@)]
          /\ IF Tail(list[r]) = <<>>
             THEN /\ wpc' = [wpc EXCEPT ![r] = nxt.pc]
                  /\ PaginationControl' =
                        [PaginationControl EXCEPT ![r] = nxt.PaginationControl]
                  /\ NextToken' = [NextToken EXCEPT ![r] = NilToken]
             ELSE UNCHANGED <<wpc, PaginationControl, NextToken>>
    /\ UNCHANGED <<inputVars, Secrets, CommandCounter, wg, orchVars, wreg,
                   rpc, spc, outputVars, calls, failed, ops, log>>

\* Variant: the slice is rebuilt from the new item instead of extended.
Receiver_append_overwrite ==
    /\ rdata # <<>>
    /\ Secrets' = << rdata[1] >>
    /\ rdata' = <<>>
    /\ UNCHANGED <<inputVars, CommandCounter, wg, orchVars, workerVars,
                   rpc, spc, outputVars, historyVars>>

\* Variant: the new item is put in front of the slice.
Receiver_append_prepend ==
    /\ rdata # <<>>
    /\ Secrets' = << rdata[1] >> \o Secrets
    /\ rdata' = <<>>
    /\ UNCHANGED <<inputVars, CommandCounter, wg, orchVars, workerVars,
                   rpc, spc, outputVars, historyVars>>

\* m.Secrets = append(m.Secrets, data)
Receiver_append ==
    /\ rdata # <<>>
    /\ Secrets' = Append(Secrets, rdata[1])
    /\ rdata' = <<>>
    /\ UNCHANGED <<inputVars, CommandCounter, wg, orchVars, workerVars,
                   rpc, spc, outputVars, historyVars>>

\* Variant: the append runs detached from the select loop, so the stop
\* signal can be taken while an item is still waiting to be appended.
Receiver_stop_detached ==
    /\ opc = "receiverStop"
    /\ rpc = "select"
    /\ rpc' = "ack"
    /\ opc' = "receiverAck"
    /\ UNCHANGED <<inputVars, Secrets, CommandCounter, wg, oi, oreg, workerVars,
                   rdata, spc, outputVars, historyVars>>

\* case <-receiverDone: receiverDone <- true in PrintSecrets meets the
\* Receiver's select.
Receiver_stop ==
    /\ opc = "receiverStop"
    /\ rpc = "select"
    /\ rdata = <<>>
    /\ rpc' = "ack"
    /\ opc' = "receiverAck"
    /\ UNCHANGED <<inputVars, Secrets, CommandCounter, wg, oi, oreg, workerVars,
                   rdata, spc, outputVars, historyVars>>

\* receiverDone <- true in the Receiver meets <-receiverDone in
\* PrintSecrets; the Receiver returns and the deferred close runs.
Receiver_ack ==
    /\ opc = "receiverAck"
    /\ rpc = "ack"
    /\ rpc' = "done"
    /\ opc' = "rows"
    /\ UNCHANGED <<inputVars, Secrets, CommandCounter, wg, oi, oreg, workerVars,
                   rdata, spc, outputVars, historyVars>>

\* ------------------------------------------------- PrintSecrets, output
\* Variant: the loop over m.Secrets starts at the second entry.
PrintSecrets_rows_skipfirst ==
    /\ opc = "rows"
    /\ body' = [i \in 1..(Len(Secrets) - 1) |->
                  << Secrets[i + 1].AWSService, Secrets[i + 1].Region,
                     Secrets[i + 1].Name, Secrets[i + 1].Description >>]
    /\ opc' = "report"
    /\ UNCHANGED <<inputVars, Secrets, CommandCounter, wg, oi, oreg, workerVars,
                   receiverVars, spc, report, historyVars>>

\* The table rows: one per entry of m.Secrets, in order.
PrintSecrets_rows ==
    /\ opc = "rows"
    /\ body' = [i \in 1..Len(Secrets) |->
                  << Secrets[i].AWSService, Secrets[i].Region,
                     Secrets[i].Name, Secrets[i].Description >>]
    /\ opc' = "report"
    /\ UNCHANGED <<inputVars, Secrets, CommandCounter, wg, oi, oreg, workerVars,
                   receiverVars, spc, report, historyVars>>

\* writeLoot: MkdirAll and WriteFile may each fail, and each failure is
\* one Error++.  No other goroutine is running any more.
writeLoot(mkdirFails, writeFails) ==
    [CommandCounter EXCEPT !.Error = @ + (IF mkdirFails THEN 1 ELSE 0)
                                       + (IF writeFails THEN 1 ELSE 0)]

\* Variant: the output file and the loot are written whether or not there
\* are rows.
PrintSecrets_report_unguarded ==
    /\ opc = "report"
    /\ \E mkdirFails \in BOOLEAN, writeFails \in BOOLEAN :
          CommandCounter' = writeLoot(mkdirFails, writeFails)
    /\ report' = ToString(Len(body)) \o " secrets found."
    /\ opc' = "done"
    /\ UNCHANGED <<inputVars, Secrets, wg, oi, oreg, workerVars,
                   receiverVars, spc, body, historyVars>>

\* if len(m.output.Body) > 0 { ... writeLoot ... "%s secrets found." }
\* else { "No secrets found, skipping the creation of an output file." }
PrintSecrets_report ==
    /\ opc = "report"
    /\ IF Len(body) > 0
       THEN /\ \E mkdirFails \in BOOLEAN, writeFails \in BOOLEAN :
                 CommandCounter' = writeLoot(mkdirFails, writeFails)
            /\ report' = ToString(Len(body)) \o " secrets found."
       ELSE /\ report' = "No secrets found, skipping the creation of an output file."
            /\ UNCHANGED CommandCounter
    /\ opc' = "done"
    /\ UNCHANGED <<inputVars, Secrets, wg, oi, oreg, workerVars,
                   receiverVars, spc, body, historyVars>>

\* ------------------------------------------------------------------ Next
Next ==
    \/ PrintSecrets_wgAdd
    \/ PrintSecrets_PendingLoad
    \/ PrintSecrets_PendingStore
    \/ PrintSecrets_go
    \/ PrintSecrets_wgWait
    \/ SpinUntil_stop
    \/ SpinUntil_ack
    \/ \E r \in Regions : executeChecks_TotalLoad(r)
    \/ \E r \in Regions : executeChecks_TotalStore(r)
    \/ \E r \in Regions : executeChecks_PendingLoad(r)
    \/ \E r \in Regions : executeChecks_PendingStore(r)
    \/ \E r \in Regions : executeChecks_ExecutingLoad(r)
    \/ \E r \in Regions : executeChecks_ExecutingStore(r)
    \/ \E r \in Regions : getSecretsManagerSecretsPerRegion_ListSecrets(r)
    \/ \E r \in Regions : getSecretsManagerSecretsPerRegion_ErrorLoad(r)
    \/ \E r \in Regions : getSecretsManagerSecretsPerRegion_ErrorStore(r)
    \/ \E r \in Regions : getSSMParametersPerRegion_DescribeParameters(r)
    \/ \E r \in Regions : getSSMParametersPerRegion_ErrorLoad(r)
    \/ \E r \in Regions : getSSMParametersPerRegion_ErrorStore(r)
    \/ \E r \in Regions : executeChecks_ExecutingDecLoad(r)
    \/ \E r \in Regions : executeChecks_ExecutingDecStore(r)
    \/ \E r \in Regions : executeChecks_CompleteLoad(r)
    \/ \E r \in Regions : executeChecks_CompleteStore(r)
    \/ \E r \in Regions : executeChecks_wgDone(r)
    \/ \E r \in Regions : Receiver_receive(r)
    \/ Receiver_append
    \/ Receiver_stop
    \/ Receiver_ack
    \/ PrintSecrets_rows
    \/ PrintSecrets_report

Spec == Init /\ [][Next]_vars

\* ===================================================== derived notions
\* The positions of executeChecks in program order.
PcOrder ==
    << "idle", "totLoad", "totStore", "pendLoad", "pendStore",
       "execLoad", "execStore",
       "sm_call", "sm_send", "sm_errLoad", "sm_errStore",
       "ssm_call", "ssm_send", "ssm_errLoad", "ssm_errStore",
       "exec2Load", "exec2Store", "compLoad", "compStore", "wgDone", "done" >>

Pos(pc) == CHOOSE i \in DOMAIN PcOrder : PcOrder[i] = pc

\* The worker of region r has executed the statement at position pc.
Past(r, pc) == Pos(wpc[r]) > Pos(pc)

\* The pagination loop of source k in region r has been left.
LoopLeft(r, k) ==
    IF k = SecretsManager THEN Pos(wpc[r]) >= Pos("ssm_call")
    ELSE Pos(wpc[r]) >= Pos("exec2Load")

\* wg.Wait() has returned.
WaitReturned == opc \notin {"loop", "pendLoad", "pendStore", "go"}

\* <-receiverDone has returned in PrintSecrets.
AckObserved == opc \in {"rows", "report", "done"}

\* Between the return of wg.Wait() and the loot stage.
RunEnd == WaitReturned /\ opc # "done"

Sources == Regions \X Kinds

NoFailure == \A x \in Sources : ~remote[x[1]][x[2]].fails

\* The Secret that record j of page p of source k in region r becomes,
\* written out field by field from the remote's data.
Expected(r, k, p, j) ==
    [ AWSService |-> k, Region |-> r,
      Name |-> (IF k = SecretsManager THEN "secret-" ELSE "param-")
               \o ToString(p) \o "-" \o ToString(j),
      Description |-> IF j % 2 = 1 THEN ""
                      ELSE "about " \o ToString(p) \o "-" \o ToString(j) ]

Occurrences(x) == Cardinality({ i \in DOMAIN Secrets : Secrets[i] = x })

\* Every record the remote serves for source k of region r is in m.Secrets
\* exactly once.
AllOnce(r, k) ==
    \A p \in DOMAIN remote[r][k].pages :
        \A j \in 1..remote[r][k].pages[p] :
            Occurrences(Expected(r, k, p, j)) = 1

ItemsOf(r) == Cardinality({ i \in DOMAIN Secrets : Secrets[i].Region = r })

\* ================================================================ claims
\* C1 Completeness: when every list call succeeds, m.Secrets as read after
\* the receiver handshake has as many entries as the remote returned over
\* all pages of both sources of all regions, each record exactly once.
Completeness ==
    (AckObserved /\ NoFailure) =>
        /\ Len(Secrets) = TotalRecords(remote, Regions)
        /\ \A x \in Sources : AllOnce(x[1], x[2])

CompletenessWitness ==
    /\ AckObserved
    /\ NoFailure
    /\ Len(AWSRegions) = 2
    /\ Len(Secrets) = 2
    /\ Secrets[1].Region # Secrets[2].Region

\* C2 Shutdown ordering: when <-receiverDone returns, every worker has
\* finished and every item a worker submitted has been appended; a run in
\* which region r submits M(r) items has the sum of the M(r) in m.Secrets.
ShutdownOrdering ==
    AckObserved =>
        /\ \A r \in Regions : wpc[r] = "done"
        /\ rdata = <<>>
        /\ \A r \in Regions :
              /\ ItemsOf(r) = sent[r]
              /\ sent[r] = RecordsOf(remote[r][SecretsManager])
                           + RecordsOf(remote[r][SSM])

ShutdownOrderingWitness ==
    /\ opc = "rows"
    /\ Len(AWSRegions) = 2
    /\ \A r \in Regions : sent[r] = 1

\* C3 Counter convergence: once wg.Wait() has returned, Pending and
\* Executing are 0 and Complete is the number of regions.
CounterConvergence ==
    WaitReturned =>
        /\ CommandCounter.Pending = 0
        /\ CommandCounter.Executing = 0
        /\ CommandCounter.Complete = Len(AWSRegions)

\* The regions for which PrintSecrets has executed Pending++.
Scheduled == (oi - 1) + (IF opc = "go" THEN 1 ELSE 0)

\* C4 Counter sum invariant: in every state Pending + Executing + Complete
\* is the number of regions scheduled so far.
CounterSum ==
    CommandCounter.Pending + CommandCounter.Executing + CommandCounter.Complete
        = Scheduled

\* C5 Counter non-negativity: Pending, Executing, Complete and Error are
\* never negative.
CounterNonNegative ==
    /\ CommandCounter.Pending >= 0
    /\ CommandCounter.Executing >= 0
    /\ CommandCounter.Complete >= 0
    /\ CommandCounter.Error >= 0

\* The ++ and -- statements that have been executed in full, per field.
Executed(pc) == Cardinality({ r \in Regions : Past(r, pc) })

ErrorIncs ==
    Cardinality({ x \in Sources :
        /\ failed[x[1]][x[2]] = 1
        /\ wpc[x[1]] \notin {Pfx(x[2]) \o "errLoad", Pfx(x[2]) \o "errStore"} })

\* No goroutine is between the read and the write of a ++ or -- on the field.
Quiet(pcs) == opc \notin pcs /\ \A r \in Regions : wpc[r] \notin pcs

\* C6 No lost updates: whenever no ++ or -- of a field is half done, the
\* field is its initial value 0 plus the increments minus the decrements
\* executed on it.
NoLostUpdates ==
    /\ Quiet({"pendStore"}) =>
          CommandCounter.Pending = Scheduled - Executed("pendStore")
    /\ Quiet({"execStore", "exec2Store"}) =>
          CommandCounter.Executing = Executed("execStore") - Executed("exec2Store")
    /\ Quiet({"compStore"}) =>
          CommandCounter.Complete = Executed("compStore")
    /\ (Quiet({"sm_errStore", "ssm_errStore"}) /\ opc # "done") =>
          CommandCounter.Error = ErrorIncs

\* C7 Partial-failure isolation: when exactly one source fails and every
\* other source succeeds, m.Secrets at run end holds every item of every
\* other source, and the Error counter is at least 1.
OnlyFailure(x) ==
    /\ remote[x[1]][x[2]].fails
    /\ \A y \in Sources \ {x} : ~remote[y[1]][y[2]].fails

PartialFailureIsolation ==
    \A x \in Sources :
        (AckObserved /\ OnlyFailure(x)) =>
            /\ \A y \in Sources \ {x} : AllOnce(y[1], y[2])
            /\ CommandCounter.Error >= 1

PartialFailureIsolationWitness ==
    /\ opc = "rows"
    /\ Len(AWSRegions) = 2
    /\ OnlyFailure(<<AWSRegions[1], SecretsManager>>)
    /\ Occurrences(Expected(AWSRegions[1], SSM, 1, 1)) = 1
    /\ Occurrences(Expected(AWSRegions[2], SecretsManager, 1, 1)) = 1

\* C8 Pagination termination: a source that serves k pages, the last with
\* a nil NextToken, is called exactly k times: never more than k, and k
\* once its loop has been left.
PaginationTermination ==
    \A x \in Sources :
        LET b == remote[x[1]][x[2]]
        IN ~b.fails =>
              /\ calls[x[1]][x[2]] <= Len(b.pages)
              /\ LoopLeft(x[1], x[2]) => calls[x[1]][x[2]] = Len(b.pages)

PaginationTerminationWitness ==
    \E x \in Sources :
        /\ ~remote[x[1]][x[2]].fails
        /\ Len(remote[x[1]][x[2]].pages) = 3
        /\ LoopLeft(x[1], x[2])
        /\ calls[x[1]][x[2]] = 3

FailedCalls ==
    Cardinality({ x \in Sources : remote[x[1]][x[2]].fails })

\* C9 Error tally: between the return of wg.Wait() and the loot stage the
\* Error counter is the number of list calls that returned an error.
ErrorTally ==
    RunEnd => CommandCounter.Error = FailedCalls

\* C10 Immutable after acknowledgment: once <-receiverDone has returned in
\* PrintSecrets, no step takes an item from the channel or changes
\* m.Secrets.
ImmutableAfterAck ==
    [][AckObserved => (Secrets' = Secrets /\ rdata' = rdata /\ sent' = sent)]_vars

ImmutableAfterAckWitness ==
    /\ opc = "done"
    /\ rpc = "done"
    /\ Len(Secrets) = 2

\* C11 Single writer: m.Secrets changes only in a step of the Receiver that
\* appends the item it took from the channel, a step in which no worker and
\* not PrintSecrets moves; and PrintSecrets reads m.Secrets (to build the
\* rows) only when the Receiver has terminated.
SingleWriter ==
    [][ /\ Secrets' # Secrets =>
              /\ rpc = "select"
              /\ rdata # <<>>
              /\ Secrets' = Append(Secrets, rdata[1])
              /\ wpc' = wpc
              /\ opc' = opc
        /\ body' # body => rpc = "done" ]_vars

SingleWriterWitness ==
    /\ Len(Secrets) = 1
    /\ rdata # <<>>
    /\ \E r \in Regions : wpc[r] \in {"sm_send", "ssm_send", "ssm_call"}
    /\ opc = "loop"

ZeroCounters ==
    [Total |-> 0, Pending |-> 0, Complete |-> 0, Error |-> 0, Executing |-> 0]

\* C12 Zero-work run: with an empty region list wg.Wait() can return at
\* once, no step of the run blocks before PrintSecrets has finished, both
\* handshakes have completed by then, m.Secrets is empty and every counter
\* stays zero.
ZeroWorkRun ==
    Len(AWSRegions) = 0 =>
        /\ Secrets = <<>>
        /\ rdata = <<>>
        /\ wg = 0
        /\ CommandCounter = ZeroCounters
        /\ opc = "loop" => ENABLED PrintSecrets_wgWait
        /\ opc # "done" => ENABLED Next
        /\ AckObserved => (spc = "done" /\ rpc = "done")
        /\ opc \in {"report", "done"} => body = <<>>

ZeroWorkRunWitness ==
    /\ Len(AWSRegions) = 0
    /\ opc = "done"
    /\ spc = "done"
    /\ rpc = "done"

\* The item the Receiver holds, if it is of region r.
Held(r) == IF rdata # <<>> /\ rdata[1].Region = r THEN 1 ELSE 0

\* C13 Lossless item fields: every entry of m.Secrets is a record of the
\* remote of its region with the kind of its source, the record's name and
\* description unchanged and "" for an absent description; and a region has
\* as many entries as its worker has sent.
LosslessFields ==
    /\ \A i \in DOMAIN Secrets :
          /\ Secrets[i].Region \in Regions
          /\ \E k \in Kinds :
                \E p \in DOMAIN remote[Secrets[i].Region][k].pages :
                   \E j \in 1..remote[Secrets[i].Region][k].pages[p] :
                      Secrets[i] = Expected(Secrets[i].Region, k, p, j)
    /\ \A r \in Regions : ItemsOf(r) + Held(r) = sent[r]

LosslessFieldsWitness ==
    /\ Len(Secrets) = 2
    /\ Secrets[1].Description = ""
    /\ Secrets[2].Description # ""
    /\ Secrets[2].AWSService = SSM

\* C14 Final report: after every completed run PrintSecrets has reported
\* the number of results, also when that number is zero.
FinalReportCount ==
    opc = "done" => report = ToString(Len(Secrets)) \o " secrets found."

\* C14 as amended: after every completed run PrintSecrets has printed one
\* closing line: the number of results when there is at least one, and the
\* sentence that no secrets were found, without a number, when there is
\* none.  Nothing of the kind is printed before the run has completed.
FinalReport ==
    /\ opc = "done" =>
          report = IF Len(Secrets) > 0
                   THEN ToString(Len(Secrets)) \o " secrets found."
                   ELSE "No secrets found, skipping the creation of an output file."
    /\ opc # "done" => report = ""

FinalReportWitness ==
    /\ opc = "done"
    /\ Len(AWSRegions) = 2
    /\ Secrets = <<>>
    /\ report = "No secrets found, skipping the creation of an output file."

IsPrefix(s, t) == Len(s) <= Len(t) /\ s = SubSeq(t, 1, Len(s))

NotError(e) == e[1] # "Error"

\* The counter statements of executeChecks other than Error++, and its
\* wg.Done(), in program order.
WorkerStatements ==
    << <<"Total", 1>>, <<"Pending", -1>>, <<"Executing", 1>>,
       <<"Executing", -1>>, <<"Complete", 1>>, <<"wg", -1>> >>

ErrorsOf(r) == failed[r][SecretsManager] + failed[r][SSM]

\* C15 Exactly-once completion: what a worker has executed of Pending--,
\* Executing++, Executing--, Complete++ and wg.Done() is always a prefix of
\* that list, each statement once, and the whole list when the worker has
\* finished, however many of its sources returned an error.
ExactlyOnce ==
    \A r \in Regions :
        /\ IsPrefix(SelectSeq(ops[r], NotError), WorkerStatements)
        /\ wpc[r] = "done" => SelectSeq(ops[r], NotError) = WorkerStatements
        /\ wpc[r] = "idle" => ops[r] = <<>>

ExactlyOnceWitness ==
    \E r, q \in Regions :
        /\ wpc[r] = "done" /\ ErrorsOf(r) = 2
        /\ wpc[q] = "done" /\ ErrorsOf(q) = 0

\* C16 Error scope: a source is called until its first error or nil
\* NextToken and not again: a failed call is the last call of its source in
\* its region.  Every source of every region, failing or not, the source
\* after a failed one included, gets all the calls it answers, and the
\* items of every served page are in the result at the end.
ErrorScope ==
    \A x \in Sources :
        LET r == x[1]
            k == x[2]
            b == remote[r][k]
        IN /\ failed[r][k] <= 1
           /\ calls[r][k] <= CallsOf(b)
           /\ failed[r][k] = 1 => (b.fails /\ calls[r][k] = CallsOf(b))
           /\ LoopLeft(r, k) =>
                 (calls[r][k] = CallsOf(b) /\ (failed[r][k] = 1 <=> b.fails))
           /\ AckObserved => (LoopLeft(r, k) /\ AllOnce(r, k))

ErrorScopeWitness ==
    /\ AckObserved
    /\ Len(AWSRegions) = 1
    /\ failed[AWSRegions[1]][SecretsManager] = 1
    /\ calls[AWSRegions[1]][SecretsManager] = 2
    /\ calls[AWSRegions[1]][SSM] = 1
    /\ Secrets = << Expected(AWSRegions[1], SecretsManager, 1, 1),
                    Expected(AWSRegions[1], SSM, 1, 1) >>

\* C17 Token threading: in the calls of one source in one region the first
\* call carries the nil token, every later call carries the NextToken of
\* the call before it, which succeeded with a non-nil NextToken and whose
\* records had all been sent when the later call was issued; and the loop
\* is left after the first response with an error or a nil NextToken.
TokenThreading ==
    \A x \in Sources :
        LET L == log[x[1]][x[2]]
        IN /\ Len(L) = calls[x[1]][x[2]]
           /\ L # <<>> => L[1].token = NilToken
           /\ \A i \in 1..(Len(L) - 1) :
                 /\ ~L[i].err
                 /\ L[i].next # NilToken
                 /\ L[i + 1].token = L[i].next
                 /\ L[i + 1].sentBefore = L[i].sentBefore + L[i].n
           /\ LoopLeft(x[1], x[2]) =>
                 /\ L # <<>>
                 /\ L[Len(L)].err \/ L[Len(L)].next = NilToken
                 /\ sent[x[1]] >= L[Len(L)].sentBefore + L[Len(L)].n

TokenThreadingWitness ==
    \E x \in Sources :
        /\ LoopLeft(x[1], x[2])
        /\ Len(log[x[1]][x[2]]) = 3
        /\ log[x[1]][x[2]][3].token # log[x[1]][x[2]][2].token
        /\ log[x[1]][x[2]][3].sentBefore = 2

\* PrintSecrets is at receiverDone <- true or beyond it.
StopSent == opc = "receiverStop" \/ AckObserved \/ opc = "receiverAck"

\* C18 Stop order: whenever PrintSecrets is sending the Receiver's stop
\* signal or has sent it, and whenever the Receiver has taken it, every
\* worker has finished, none is blocked on a send, and the spinner has
\* received its stop signal and acknowledged it.
StopOrder ==
    (StopSent \/ rpc # "select") =>
        /\ \A r \in Regions : wpc[r] = "done"
        /\ wg = 0
        /\ spc = "done"

StopOrderWitness ==
    /\ opc = "receiverAck"
    /\ rpc = "ack"
    /\ Len(AWSRegions) = 2
    /\ Len(Secrets) = 2
    /\ spc = "done"

\* The Go scheduler runs some goroutine that can take a step: a run does
\* not stop while a step is possible.
FairSpec == Init /\ [][Next]_vars /\ WF_vars(Next)

\* The run is over: PrintSecrets has finished and every goroutine it
\* started has terminated.
Finished ==
    /\ opc = "done"
    /\ spc = "done"
    /\ rpc = "done"
    /\ rdata = <<>>
    /\ wg = 0
    /\ \A r \in Regions : wpc[r] = "done"

\* PrintSecrets never sends a stop signal on a channel its peer has closed:
\* the peer closes the channel when it returns.
NoSendOnClosed ==
    /\ opc = "spinnerStop" => spc # "done"
    /\ opc = "receiverStop" => rpc # "done"

\* C19 Deadlock freedom: with sources that answer finitely many calls, no
\* state before the end of the run is blocked (some goroutine can always
\* take a step), no stop signal is sent on a closed channel, and every
\* fair run reaches the handover and finishes: no worker stays blocked on
\* the channel, wg.Wait() returns and both handshakes complete.
DeadlockFreedom ==
    /\ []((~Finished => ENABLED Next) /\ NoSendOnClosed)
    /\ <>Finished

DeadlockFreedomWitness ==
    /\ Finished
    /\ Len(AWSRegions) = 2
    /\ Len(Secrets) = 2
    /\ \E r \in Regions : ErrorsOf(r) = 1

\* The records of source k of region r from page p on, as Secrets, in page
\* order and in record order inside a page.
RECURSIVE SourceSeq(_, _, _)
SourceSeq(r, k, p) ==
    IF p > Len(remote[r][k].pages) THEN <<>>
    ELSE [j \in 1..remote[r][k].pages[p] |-> Expected(r, k, p, j)]
         \o SourceSeq(r, k, p + 1)

\* What the worker of region r submits during the whole run, in order.
RegionSeq(r) == SourceSeq(r, SecretsManager, 1) \o SourceSeq(r, SSM, 1)

\* The entries of m.Secrets of region r, in their order in m.Secrets.
SecretsOf(r) ==
    LET OfRegion(e) == e.Region = r
    IN SelectSeq(Secrets, OfRegion)

\* C20 Per-region order: the entries of one region stand in m.Secrets in
\* the order their worker submits them: page by page and record by record
\* inside one source, all SecretsManager entries before all SSM entries.
PerRegionOrder ==
    \A r \in Regions :
        /\ IsPrefix(SecretsOf(r), RegionSeq(r))
        /\ AckObserved => SecretsOf(r) = RegionSeq(r)

PerRegionOrderWitness ==
    /\ Len(Secrets) = 2
    /\ Len(AWSRegions) = 2
    /\ Secrets[1].Region = Secrets[2].Region
    /\ Secrets[1].AWSService = SecretsManager
    /\ Secrets[2].AWSService = SSM

====
